---- MODULE Spec2Model ----
(***************************************************************************)
(* A model of rbaserun (src/src/main.rs): the descriptor classifier        *)
(* (parse_base_path and its four form parsers), the launcher (launch_base),*)
(* the history store (add_to_history, load_history, dump_history) and the  *)
(* interactive session (App::run).                                         *)
(*                                                                         *)
(* Text is a sequence of one-character strings, so that trimming,          *)
(* lower-casing, substring search, regex matching and the line-oriented    *)
(* history file are computed character by character.                       *)
(***************************************************************************)
EXTENDS Naturals, Integers, Sequences, FiniteSets, TLC

VARIABLES
    \* ---- the classifier exercised as a pure function (SpecClassify)
    raw,        \* the descriptor text handed to parse_base_path
    ntok,       \* how many fragments raw was built from
    parsed,     \* NotParsed, or the Result of parse_base_path(raw)
    \* ---- the history store exercised as pure functions (SpecStore)
    st_pc,      \* "new", "once", "twice" (uses of st_e so far) or "loaded"
    st_h0,      \* the history before the first use
    st_e,       \* the entry used
    st_hist,    \* the in-memory history
    st_once,    \* the in-memory history after the first use
    st_file,    \* the history file
    st_io,      \* what the file system did at the last dump_history
    st_res,     \* the Result the last add_to_history returned: "Ok", "Err"
    st_rd,      \* what the file system did at load_history
    st_loaded,  \* the history load_history built from st_file
    \* ---- the program: main, App::run and the history file (Spec)
    pc,             \* "start", "loop" (App::run awaits an event), "exited"
    designer,       \* App.designer
    input,          \* App.input: [value, cursor]
    error,          \* App.error
    error_text,     \* App.error_text: <<prefix, message, text it ends with>>
    history,        \* App.history
    history_state,  \* App.history_state.selected: NoSelection or an index
    file,           \* ./rbaserun_history.txt
    list_area_empty,\* the terminal is too small to show a history row
    pending,        \* how many events the terminal has yet to deliver
    last_event,     \* the event App::run handled last, and whether it
                    \* found a highlight: [code, ctrl, hl]
    spawned,        \* the arguments of the starter process this run spawned
    launched_text,  \* the descriptor text that process was spawned for
    dump_io,        \* what the file system did at this run's dump_history
    outcome         \* how the run ended: "running", "cancelled", "launched",
                    \* "persist_failed", "panicked", "read_failed",
                    \* "draw_failed", "cli_ok", "cli_err"

classifyVars == <<raw, ntok, parsed>>

storeVars ==
    <<st_pc, st_h0, st_e, st_hist, st_once, st_file, st_io, st_res, st_rd,
      st_loaded>>

appVars == <<designer, input, error, error_text, history, history_state>>

runVars == <<spawned, launched_text, dump_io, outcome>>

sessionVars ==
    <<pc, appVars, file, list_area_empty, pending, last_event, runVars>>

vars == <<classifyVars, storeVars, sessionVars>>

(***************************************************************************)
(* Bounds of the model.                                                    *)
(***************************************************************************)
\* Descriptor texts are built from at most this many fragments.
MaxTokens == 4

\* Histories handed to the history store hold at most this many entries.
MaxLen == 3

\* The terminal delivers at most this many events to a session.
MaxEvents == 6

(***************************************************************************)
(* Text helpers.                                                           *)
(***************************************************************************)
Max(S) == CHOOSE x \in S : \A y \in S : y <= x

Min(S) == CHOOSE x \in S : \A y \in S : x <= y

\* The characters char::is_whitespace accepts, among those the model uses.
Whitespace == {" ", "\n", "\r", "\t"}

UpperLetters ==
    <<"A", "B", "C", "D", "E", "F", "G", "H", "I", "J", "K", "L", "M",
      "N", "O", "P", "Q", "R", "S", "T", "U", "V", "W", "X", "Y", "Z">>

LowerLetters ==
    <<"a", "b", "c", "d", "e", "f", "g", "h", "i", "j", "k", "l", "m",
      "n", "o", "p", "q", "r", "s", "t", "u", "v", "w", "x", "y", "z">>

\* char lower-casing, as str::to_lowercase does it on ASCII letters.
LowerChar(c) ==
    IF \E i \in 1..26 : UpperLetters[i] = c
    THEN LowerLetters[CHOOSE i \in 1..26 : UpperLetters[i] = c]
    ELSE c

\* str::to_lowercase
to_lowercase(s) == [i \in 1..Len(s) |-> LowerChar(s[i])]

\* str::trim: leading and trailing whitespace removed.
trim(s) ==
    LET keep == {i \in 1..Len(s) : s[i] \notin Whitespace}
    IN  IF keep = {} THEN <<>> ELSE SubSeq(s, Min(keep), Max(keep))

\* str::contains(pat)
contains(s, pat) ==
    \E i \in 1..(Len(s) - Len(pat) + 1) : SubSeq(s, i, i + Len(pat) - 1) = pat

\* The regex class `.`: any character but a line feed.
Dot(c) == c # "\n"

\* Every character of s[a..b] is matched by `.`
AllDot(s, a, b) == \A i \in a..b : Dot(s[i])

Quote == "\""

(***************************************************************************)
(* PathKind and the Result of parsing.  One record shape for every         *)
(* outcome: kind is "Server", "File", "Web" or "Err"; err is the error     *)
(* message, arg the text the message ends with.                            *)
(***************************************************************************)
Server(h, r) ==
    [kind |-> "Server", host |-> h, ref_name |-> r, path |-> <<>>,
     url |-> <<>>, err |-> "", arg |-> <<>>]

FileKind(p) ==
    [kind |-> "File", host |-> <<>>, ref_name |-> <<>>, path |-> p,
     url |-> <<>>, err |-> "", arg |-> <<>>]

Web(u) ==
    [kind |-> "Web", host |-> <<>>, ref_name |-> <<>>, path |-> <<>>,
     url |-> u, err |-> "", arg |-> <<>>]

Err(msg, a) ==
    [kind |-> "Err", host |-> <<>>, ref_name |-> <<>>, path |-> <<>>,
     url |-> <<>>, err |-> msg, arg |-> a]

(***************************************************************************)
(* The three regular expressions, with the regex crate's leftmost-first    *)
(* semantics: the match starts at the leftmost position where one exists,  *)
(* and each greedy `.+` takes the longest run that lets the rest match.    *)
(***************************************************************************)
\* The positions of character c in s.
Positions(s, c) == {i \in 1..Len(s) : s[i] = c}

\* "(.+)" : the matches <<i, j>>, opening quote at i and closing quote at j.
QuotedMatches(s) ==
    LET q == Positions(s, Quote)
    IN  {m \in q \X q :
            /\ m[2] >= m[1] + 2
            /\ AllDot(s, m[1] + 1, m[2] - 1)}

\* (.+);(.+) : the matches <<i, k>>, start at i and the separating `;` at k.
SimpleMatches(s) ==
    {m \in (1..Len(s)) \X Positions(s, ";") :
        /\ m[2] >= m[1] + 1
        /\ AllDot(s, m[1], m[2] - 1)
        /\ m[2] + 1 <= Len(s) /\ Dot(s[m[2] + 1])}

\* "(.+)".+"(.+)" : the matches <<i, j, k, l>>, the four quotes in order.
ServerMatches(s) ==
    LET q == Positions(s, Quote)
    IN  {m \in q \X q \X q \X q :
            /\ m[2] >= m[1] + 2 /\ m[3] >= m[2] + 2 /\ m[4] >= m[3] + 2
            /\ AllDot(s, m[1] + 1, m[4] - 1)}

\* The end of the longest run of `.` characters starting at position a.
DotRunEnd(s, a) == Max({b \in a..Len(s) : AllDot(s, a, b)})

(***************************************************************************)
(* The form parsers.                                                       *)
(***************************************************************************)
\* Faulty variant, used to show that the property below discriminates: the first `.+` is lazy, so the text is split at its first `;`.
parse_base_simple_form_first(txt) ==
    LET ms == SimpleMatches(txt)
    IN  IF ms = {} THEN Err("expected pattern: host;ref", <<>>)
        ELSE LET i == Min({m[1] : m \in ms})
                 k == Min({m[2] : m \in {x \in ms : x[1] = i}})
             IN  Server(SubSeq(txt, i, k - 1),
                        SubSeq(txt, k + 1, DotRunEnd(txt, k + 1)))

parse_base_simple_form(txt) ==
    LET ms == SimpleMatches(txt)
    IN  IF ms = {} THEN Err("expected pattern: host;ref", <<>>)
        ELSE LET i == Min({m[1] : m \in ms})
                 k == Max({m[2] : m \in {x \in ms : x[1] = i}})
             IN  Server(SubSeq(txt, i, k - 1),
                        SubSeq(txt, k + 1, DotRunEnd(txt, k + 1)))

\* Faulty variant, used to show that the property below discriminates: the two captures are assigned the other way round.
parse_base_server_form_swapped(txt) ==
    LET ms == ServerMatches(txt)
    IN  IF ms = {} THEN Err("expected pattern: Srvr=\"host\";Ref=\"ref\";", <<>>)
        ELSE LET i == Min({m[1] : m \in ms})
                 j == Max({m[2] : m \in {x \in ms : x[1] = i}})
                 k == Max({m[3] : m \in {x \in ms : x[1] = i /\ x[2] = j}})
                 l == Max({m[4] : m \in {x \in ms : x[1] = i /\ x[2] = j
                                                      /\ x[3] = k}})
             IN  Server(SubSeq(txt, k + 1, l - 1), SubSeq(txt, i + 1, j - 1))

parse_base_server_form(txt) ==
    LET ms == ServerMatches(txt)
    IN  IF ms = {} THEN Err("expected pattern: Srvr=\"host\";Ref=\"ref\";", <<>>)
        ELSE LET i == Min({m[1] : m \in ms})
                 j == Max({m[2] : m \in {x \in ms : x[1] = i}})
                 k == Max({m[3] : m \in {x \in ms : x[1] = i /\ x[2] = j}})
                 l == Max({m[4] : m \in {x \in ms : x[1] = i /\ x[2] = j
                                                      /\ x[3] = k}})
             IN  Server(SubSeq(txt, i + 1, j - 1), SubSeq(txt, k + 1, l - 1))

parse_base_file_form(txt) ==
    LET ms == QuotedMatches(txt)
    IN  IF ms = {} THEN Err("expected pattern: File=\"<path>\";", <<>>)
        ELSE LET i == Min({m[1] : m \in ms})
                 j == Max({m[2] : m \in {x \in ms : x[1] = i}})
             IN  FileKind(SubSeq(txt, i + 1, j - 1))

parse_base_web_form(txt) ==
    LET ms == QuotedMatches(txt)
    IN  IF ms = {} THEN Err("expected pattern: ws=\"<url>\";", <<>>)
        ELSE LET i == Min({m[1] : m \in ms})
                 j == Max({m[2] : m \in {x \in ms : x[1] = i}})
             IN  Web(SubSeq(txt, i + 1, j - 1))

(***************************************************************************)
(* parse_base_path: the ordered chain of marker tests.                     *)
(***************************************************************************)
\* Faulty variant, used to show that the property below discriminates: the text is lower-cased before the `ws=` test, like the others.
parse_base_path_lower_first(input_path) ==
    LET lc == to_lowercase(trim(input_path))
    IN  IF contains(lc, <<"w", "s", "=">>) THEN parse_base_web_form(lc)
        ELSE IF contains(lc, <<"f", "i", "l", "e", "=">>)
             THEN parse_base_file_form(lc)
        ELSE IF /\ contains(lc, <<"s", "r", "v", "r", "=">>)
                /\ contains(lc, <<"r", "e", "f", "=">>)
             THEN parse_base_server_form(lc)
        ELSE IF contains(lc, <<";">>) THEN parse_base_simple_form(lc)
        ELSE Err("Could not parse provided path: ", input_path)

\* Faulty variant, used to show that the property below discriminates: a form whose shape is absent falls through to the later forms.
parse_base_path_fallthrough(input_path) ==
    LET s      == trim(input_path)
        lc     == to_lowercase(s)
        web    == parse_base_web_form(s)
        file_  == parse_base_file_form(lc)
        server == parse_base_server_form(lc)
        simple == parse_base_simple_form(lc)
    IN  IF contains(s, <<"w", "s", "=">>) /\ web.kind # "Err" THEN web
        ELSE IF /\ contains(lc, <<"f", "i", "l", "e", "=">>)
                /\ file_.kind # "Err"
             THEN file_
        ELSE IF /\ contains(lc, <<"s", "r", "v", "r", "=">>)
                /\ contains(lc, <<"r", "e", "f", "=">>)
                /\ server.kind # "Err"
             THEN server
        ELSE IF contains(lc, <<";">>) /\ simple.kind # "Err" THEN simple
        ELSE Err("Could not parse provided path: ", input_path)

parse_base_path(input_path) ==
    LET s  == trim(input_path)
        lc == to_lowercase(s)
    IN  IF contains(s, <<"w", "s", "=">>) THEN parse_base_web_form(s)
        ELSE IF contains(lc, <<"f", "i", "l", "e", "=">>)
             THEN parse_base_file_form(lc)
        ELSE IF /\ contains(lc, <<"s", "r", "v", "r", "=">>)
                /\ contains(lc, <<"r", "e", "f", "=">>)
             THEN parse_base_server_form(lc)
        ELSE IF contains(lc, <<";">>) THEN parse_base_simple_form(lc)
        ELSE Err("Could not parse provided path: ", input_path)

(***************************************************************************)
(* The history store.  The history file is a record: whether it exists and *)
(* its characters.  The file system's part in an operation is an input:    *)
(* dump_history gets [create_ok, bytes_ok] (whether File::create succeeds, *)
(* and how many bytes reach the file before a write fails), load_history   *)
(* gets [open_ok, lines_ok] (whether File::open succeeds, and how many     *)
(* lines are read before a read fails).                                    *)
(***************************************************************************)
NoFile == [exists |-> FALSE, data |-> <<>>]

FileOf(chars) == [exists |-> TRUE, data |-> chars]

InSeq(x, h) == \E i \in 1..Len(h) : h[i] = x

\* Iterator::position: the first index holding path.
position(h, path) == Min({i \in 1..Len(h) : h[i] = path})

\* Vec::remove
remove(h, index) == SubSeq(h, 1, index - 1) \o SubSeq(h, index + 1, Len(h))

\* Faulty variant, used to show that the property below discriminates: a known path is inserted at index 0 without being removed.
history_after_use_keep(h, path) ==
    IF ~InSeq(path, h) THEN Append(h, path) ELSE <<path>> \o h

\* Faulty variant, used to show that the property below discriminates: a known path is removed from its place and pushed at the end.
history_after_use_to_back(h, path) ==
    IF ~InSeq(path, h) THEN Append(h, path)
    ELSE Append(remove(h, position(h, path)), path)

\* Faulty variant, used to show that the property below discriminates: a new path is inserted at index 0, like a known one.
history_after_use_front(h, path) ==
    IF ~InSeq(path, h) THEN <<path>> \o h
    ELSE <<path>> \o remove(h, position(h, path))

\* The list part of add_to_history: a new path is pushed at the end, a
\* known one is removed from its place and inserted at index 0.
history_after_use(h, path) ==
    IF ~InSeq(path, h) THEN Append(h, path)
    ELSE LET index == position(h, path)
         IN  <<h[index]>> \o remove(h, index)

\* What writeln!(file, "{}", line) writes for the first n entries of h.
RECURSIVE write_lines(_, _)
write_lines(h, n) ==
    IF n = 0 THEN <<>> ELSE write_lines(h, n - 1) \o h[n] \o <<"\n">>

\* Faulty variant, used to show that the property below discriminates: the file is opened for appending instead of being truncated.
dump_history_append(h, f, io) ==
    IF ~io.create_ok THEN [file |-> f, res |-> "Ok"]
    ELSE LET data == write_lines(h, Len(h))
         IN  IF io.bytes_ok < Len(data)
             THEN [file |-> FileOf(f.data \o SubSeq(data, 1, io.bytes_ok)),
                   res |-> "Err"]
             ELSE [file |-> FileOf(f.data \o data), res |-> "Ok"]

\* dump_history: File::create truncates the file; a create failure leaves
\* the file alone and is not reported; a failed writeln! ends the function
\* with Err.  The File is not buffered: every entry and every line feed is
\* written as it comes, so the bytes before the failure are in the file,
\* the last line possibly in part or without its line feed.
dump_history(h, f, io) ==
    IF ~io.create_ok THEN [file |-> f, res |-> "Ok"]
    ELSE LET data == write_lines(h, Len(h))
         IN  IF io.bytes_ok < Len(data)
             THEN [file |-> FileOf(SubSeq(data, 1, io.bytes_ok)), res |-> "Err"]
             ELSE [file |-> FileOf(data), res |-> "Ok"]

\* Faulty variant, used to show that the property below discriminates: the list is updated and not dumped.
add_to_history_no_dump(h, path, f, io) ==
    [history |-> history_after_use(h, path), file |-> f, res |-> "Ok"]

\* add_to_history: the list is updated, then dumped; the Result is dump's.
add_to_history(h, path, f, io) ==
    LET h2 == history_after_use(h, path)
        d  == dump_history(h2, f, io)
    IN  [history |-> h2, file |-> d.file, res |-> d.res]

\* BufRead::lines: the text is cut after every line feed; a line that ended
\* with a line feed loses it and, then, one carriage return before it; text
\* after the last line feed is a line too.
RECURSIVE lines(_)
lines(data) ==
    IF data = <<>> THEN <<>>
    ELSE LET nl == Positions(data, "\n")
         IN  IF nl = {} THEN <<data>>
             ELSE LET k    == Min(nl)
                      body == SubSeq(data, 1, k - 1)
                      line == IF body # <<>> /\ body[Len(body)] = "\r"
                              THEN SubSeq(body, 1, Len(body) - 1)
                              ELSE body
                  IN  <<line>> \o lines(SubSeq(data, k + 1, Len(data)))

\* read_lines: Err when the file cannot be opened.
read_lines(f, rd) == IF f.exists /\ rd.open_ok THEN lines(f.data) ELSE <<>>

\* load_history: every line read before the first read error is pushed
\* onto the history; a file that cannot be opened adds nothing.
load_history(h, f, rd) ==
    LET ls == read_lines(f, rd)
    IN  h \o SubSeq(ls, 1, IF rd.lines_ok < Len(ls) THEN rd.lines_ok ELSE Len(ls))

\* The file system outcomes of one dump of history h.
DumpOutcomes(h) ==
    [create_ok : BOOLEAN, bytes_ok : 0..Len(write_lines(h, Len(h)))]

\* The file system outcomes of one load of file f.
LoadOutcomes(f) == [open_ok : BOOLEAN, lines_ok : 0..Len(lines(f.data))]

DumpSucceeds(io, h) ==
    io.create_ok /\ io.bytes_ok >= Len(write_lines(h, Len(h)))

LoadSucceeds(rd, f) ==
    f.exists /\ rd.open_ok /\ rd.lines_ok >= Len(lines(f.data))

(***************************************************************************)
(* launch_base and try_parse_and_launch.  The operating system's part is   *)
(* an input: [starter_exists, spawn_ok].                                   *)
(***************************************************************************)
LaunchOutcomes == [starter_exists : BOOLEAN, spawn_ok : BOOLEAN]

NoError == <<"", "", <<>>>>

\* Faulty variant, used to show that the property below discriminates: the flag is passed before the launch mode.
launch_args_flag_first(path, dsg) ==
    LET launch_mode == IF dsg THEN "DESIGNER" ELSE "ENTERPRISE"
    IN  CASE path.kind = "Server" ->
                <<"/S", launch_mode, path.host \o <<"\\">> \o path.ref_name>>
          [] path.kind = "File" -> <<"/F", launch_mode, path.path>>
          [] path.kind = "Web" -> <<"/WS", launch_mode, path.url>>

\* The three arguments Command::new(starter).args([..]) is given.
launch_args(path, dsg) ==
    LET launch_mode == IF dsg THEN "DESIGNER" ELSE "ENTERPRISE"
    IN  CASE path.kind = "Server" ->
                <<launch_mode, "/S", path.host \o <<"\\">> \o path.ref_name>>
          [] path.kind = "File" -> <<launch_mode, "/F", path.path>>
          [] path.kind = "Web" -> <<launch_mode, "/WS", path.url>>

\* launch_base: [ok, err, argv]; argv is what was spawned, <<>> if nothing.
launch_base(path, dsg, os) ==
    IF ~os.starter_exists
    THEN [ok |-> FALSE, err |-> "Could not locate 1C starter app", argv |-> <<>>]
    ELSE IF ~os.spawn_ok
         THEN [ok |-> FALSE, err |-> "spawn failed", argv |-> <<>>]
         ELSE [ok |-> TRUE, err |-> "", argv |-> launch_args(path, dsg)]

\* Faulty variant, used to show that the property below discriminates: the error is passed on without saying which stage failed.
try_parse_and_launch_unprefixed(path, dsg, os) ==
    LET parsed_path == parse_base_path(path)
    IN  IF parsed_path.kind = "Err"
        THEN [ok |-> FALSE, argv |-> <<>>,
              error_text |-> <<"", parsed_path.err, parsed_path.arg>>]
        ELSE LET l == launch_base(parsed_path, dsg, os)
             IN  IF l.ok
                 THEN [ok |-> TRUE, argv |-> l.argv, error_text |-> NoError]
                 ELSE [ok |-> FALSE, argv |-> <<>>,
                       error_text |-> <<"", l.err, <<>>>>]

\* try_parse_and_launch: [ok, error_text, argv].
try_parse_and_launch(path, dsg, os) ==
    LET parsed_path == parse_base_path(path)
    IN  IF parsed_path.kind = "Err"
        THEN [ok |-> FALSE, argv |-> <<>>,
              error_text |-> <<"Parsing error: ", parsed_path.err,
                               parsed_path.arg>>]
        ELSE LET l == launch_base(parsed_path, dsg, os)
             IN  IF l.ok
                 THEN [ok |-> TRUE, argv |-> l.argv, error_text |-> NoError]
                 ELSE [ok |-> FALSE, argv |-> <<>>,
                       error_text |-> <<"Launcher error: ", l.err, <<>>>>]

(***************************************************************************)
(* The edit buffer (tui_input::Input) and the history highlight            *)
(* (ratatui ListState), as App::run uses them.                             *)
(***************************************************************************)
\* Input::default()
EmptyInput == [value |-> <<>>, cursor |-> 0]

\* Input::from(String): the cursor is put after the last character.
InputFrom(text) == [value |-> text, cursor |-> Len(text)]

InsertChar(inp, c) ==
    [value |-> SubSeq(inp.value, 1, inp.cursor) \o <<c>>
               \o SubSeq(inp.value, inp.cursor + 1, Len(inp.value)),
     cursor |-> inp.cursor + 1]

DeletePrevChar(inp) ==
    IF inp.cursor = 0 THEN inp
    ELSE [value |-> remove(inp.value, inp.cursor), cursor |-> inp.cursor - 1]

GoToPrevChar(inp) ==
    IF inp.cursor = 0 THEN inp ELSE [inp EXCEPT !.cursor = inp.cursor - 1]

\* The key presses of the model: [code, ch, ctrl].
Key(code, ch, ctrl) == [code |-> code, ch |-> ch, ctrl |-> ctrl]

\* Faulty variant, used to show that the property below discriminates: a character typed with Ctrl held is inserted like a plain one.
handle_event_any_char(inp, key) ==
    CASE key.code = "Char" -> InsertChar(inp, key.ch)
      [] key.code = "Backspace" -> DeletePrevChar(inp)
      [] key.code = "Left" -> GoToPrevChar(inp)
      [] OTHER -> inp

\* Input::handle_event: a plain character is inserted at the cursor,
\* Backspace deletes before it, Left moves it; Enter, Up, Down, Esc and
\* Ctrl+D are no requests of the edit buffer.
handle_event(inp, key) ==
    CASE key.code = "Char" /\ ~key.ctrl -> InsertChar(inp, key.ch)
      [] key.code = "Backspace" -> DeletePrevChar(inp)
      [] key.code = "Left" -> GoToPrevChar(inp)
      [] OTHER -> inp

\* ListState.selected = None
NoSelection == -1

\* usize::MAX, which select_previous selects when nothing is selected; it
\* stands here as the largest integer TLC handles: all that matters of
\* it is that it is no index of any history.
USizeMax == 2147483647

\* ListState::select_next
select_next(sel) ==
    IF sel = NoSelection THEN 0
    ELSE IF sel = USizeMax THEN USizeMax ELSE sel + 1

\* ListState::select_previous
select_previous(sel) ==
    IF sel = NoSelection THEN USizeMax
    ELSE IF sel = 0 THEN 0 ELSE sel - 1

\* Faulty variant, used to show that the property below discriminates: rendering leaves an out-of-range selection alone.
render_history_unclamped(sel, h, area_empty) ==
    IF area_empty THEN sel
    ELSE IF h = <<>> THEN NoSelection ELSE sel

\* render_history: drawing the List with the ListState.  A panel with no
\* room for a row draws nothing and leaves the state alone; an empty list
\* clears the selection; an index past the end becomes the last index.
render_history(sel, h, area_empty) ==
    IF area_empty THEN sel
    ELSE IF h = <<>> THEN NoSelection
    ELSE IF sel # NoSelection /\ sel >= Len(h) THEN Len(h) - 1
    ELSE sel

\* How terminal.draw ends: the frame is drawn, or an error of the terminal
\* ends it before the widgets are rendered or after.
DrawOutcomes == {"drawn", "failed_before_render", "failed_after_render"}

\* terminal.draw: the history panel is rendered unless the draw failed
\* before; a failed draw is an error of App::run.
draw(sel, h, area_empty, d) ==
    [history_state |-> IF d = "failed_before_render" THEN sel
                       ELSE render_history(sel, h, area_empty),
     ok |-> d = "drawn"]

(***************************************************************************)
(* Spec: the program.  A run starts in main, with the history file the     *)
(* earlier runs left; main either launches the positional argument and     *)
(* exits, or runs the interactive session until it exits.                  *)
(***************************************************************************)
\* The characters the user types.
TypedChars == {"A", ";"}

\* The history files a run finds: none, one that holds two entries, and
\* one whose last line a failed write has cut short.
HistoryFiles ==
    { NoFile,
      FileOf(<<"A", ";", "A", "\n", ";", ";", "A", "\n">>),
      FileOf(<<"A", ";", "A", "\n", "A", ";">>) }

\* The positional arguments main is run with.
CliPaths == { <<"A", ";", "b">>, <<"b">>, <<" ", "b", ";", "a">> }

NoOutcome == [create_ok |-> TRUE, bytes_ok |-> 0]

\* What event::read() returned, and whether it found a highlight.
EventOf(code, ctrl, hl) == [code |-> code, ctrl |-> ctrl, hl |-> hl]

\* No event has been read yet.
NoEvent == EventOf("", FALSE, FALSE)

NoRead == [open_ok |-> TRUE, lines_ok |-> 0]

StoreIdle ==
    /\ st_pc = "idle" /\ st_h0 = <<>> /\ st_e = <<>> /\ st_hist = <<>>
    /\ st_once = <<>> /\ st_file = NoFile /\ st_io = NoOutcome
    /\ st_res = "Ok" /\ st_rd = NoRead /\ st_loaded = <<>>

ClassifyIdle == raw = <<>> /\ ntok = 0 /\ parsed = Err("not parsed", <<>>)

\* App::default()
AppDefault ==
    /\ designer = FALSE
    /\ input = EmptyInput
    /\ error = FALSE
    /\ error_text = NoError
    /\ history = <<>>
    /\ history_state = NoSelection

RunDefault ==
    /\ spawned = <<>>
    /\ launched_text = <<>>
    /\ dump_io = NoOutcome
    /\ outcome = "running"

SessionIdle ==
    /\ pc = "idle" /\ AppDefault /\ RunDefault
    /\ file = NoFile /\ list_area_empty = FALSE /\ pending = 0
    /\ last_event = NoEvent

Init ==
    /\ ClassifyIdle /\ StoreIdle
    /\ pc = "start"
    /\ AppDefault /\ RunDefault
    /\ file \in HistoryFiles
    /\ list_area_empty \in BOOLEAN
    /\ pending = MaxEvents
    /\ last_event = NoEvent

\* main with a positional argument: the descriptor is launched, the
\* history is neither loaded nor written.
MainWithPath ==
    /\ pc = "start"
    /\ \E path \in CliPaths, dsg \in BOOLEAN, os \in LaunchOutcomes :
          LET r == try_parse_and_launch(path, dsg, os)
          IN  /\ spawned' = r.argv
              /\ launched_text' = IF r.ok THEN path ELSE <<>>
              /\ outcome' = IF r.ok THEN "cli_ok" ELSE "cli_err"
    /\ pc' = "exited"
    /\ UNCHANGED <<appVars, file, list_area_empty, pending, last_event,
                   dump_io>>
    /\ UNCHANGED <<classifyVars, storeVars>>

\* main without one: App::default().run(), which first loads the history.
MainInteractive ==
    /\ pc = "start"
    /\ \E rd \in LoadOutcomes(file) :
          history' = load_history(history, file, rd)
    /\ pc' = "loop"
    /\ UNCHANGED <<designer, input, error, error_text, history_state>>
    /\ UNCHANGED <<file, list_area_empty, pending, last_event, runVars>>
    /\ UNCHANGED <<classifyVars, storeVars>>

\* What the end of a loop iteration does for a key press that did not
\* leave the loop (none of them changes the history): the edit buffer
\* handles the event, the frame is drawn; if the draw fails, run returns
\* its error.
AfterKey(key, inp, sel) ==
    /\ pending > 0 /\ pending' = pending - 1
    /\ last_event' = EventOf(key.code, key.ctrl, history_state # NoSelection)
    /\ input' = handle_event(inp, key)
    /\ \E d \in DrawOutcomes :
          LET f == draw(sel, history, list_area_empty, d)
          IN  /\ history_state' = f.history_state
              /\ pc' = IF f.ok THEN "loop" ELSE "exited"
              /\ outcome' = IF f.ok THEN "running" ELSE "draw_failed"

\* Faulty variant, used to show that the property below discriminates: the history is dumped when the session is cancelled.
KeyEsc_saves ==
    /\ pc = "loop"
    /\ pc' = "exited"
    /\ outcome' = "cancelled"
    /\ pending > 0 /\ pending' = pending - 1
    /\ last_event' = EventOf("Esc", FALSE, history_state # NoSelection)
    /\ file' = dump_history(history, file, NoOutcome).file
    /\ UNCHANGED <<appVars, list_area_empty, spawned, launched_text, dump_io>>
    /\ UNCHANGED <<classifyVars, storeVars>>

\* Esc: break.
KeyEsc ==
    /\ pc = "loop"
    /\ pc' = "exited"
    /\ outcome' = "cancelled"
    /\ pending > 0 /\ pending' = pending - 1
    /\ last_event' = EventOf("Esc", FALSE, history_state # NoSelection)
    /\ UNCHANGED <<appVars, file, list_area_empty, spawned, launched_text,
                   dump_io>>
    /\ UNCHANGED <<classifyVars, storeVars>>

\* Ctrl+D: the designer flag is flipped.
KeyCtrlD ==
    /\ pc = "loop"
    /\ designer' = ~designer
    /\ UNCHANGED <<history, error, error_text>>
    /\ AfterKey(Key("Char", "d", TRUE), input, history_state)
    /\ UNCHANGED <<file, list_area_empty, spawned, launched_text, dump_io>>
    /\ UNCHANGED <<classifyVars, storeVars>>

\* Faulty variant, used to show that the property below discriminates: the entry is recalled and stays highlighted.
KeyEnterRecall_keeps_highlight ==
    /\ pc = "loop"
    /\ history_state # NoSelection
    /\ history_state < Len(history)
    /\ UNCHANGED <<history, designer, error, error_text>>
    /\ AfterKey(Key("Enter", "", FALSE),
                InputFrom(history[history_state + 1]), history_state)
    /\ UNCHANGED <<file, list_area_empty, spawned, launched_text, dump_io>>
    /\ UNCHANGED <<classifyVars, storeVars>>

\* Enter with a highlighted entry whose index is in the history: the entry
\* becomes the edit buffer and the highlight is cleared.
KeyEnterRecall ==
    /\ pc = "loop"
    /\ history_state # NoSelection
    /\ history_state < Len(history)
    /\ UNCHANGED <<history, designer, error, error_text>>
    /\ AfterKey(Key("Enter", "", FALSE),
                InputFrom(history[history_state + 1]), NoSelection)
    /\ UNCHANGED <<file, list_area_empty, spawned, launched_text, dump_io>>
    /\ UNCHANGED <<classifyVars, storeVars>>

\* Enter with a highlighted index that is no index of the history:
\* self.history[selected_index] panics.
KeyEnterOutOfRange ==
    /\ pc = "loop"
    /\ history_state # NoSelection
    /\ history_state >= Len(history)
    /\ pc' = "exited"
    /\ outcome' = "panicked"
    /\ pending > 0 /\ pending' = pending - 1
    /\ last_event' = EventOf("Enter", FALSE, TRUE)
    /\ UNCHANGED <<appVars, file, list_area_empty, spawned, launched_text,
                   dump_io>>
    /\ UNCHANGED <<classifyVars, storeVars>>

\* Enter with no highlight and a non-empty edit buffer: the text is parsed
\* and launched; on success it is added to the history, the history is
\* dumped and the loop is left (with dump's error, if any); on failure the
\* error is kept for display.
KeyEnterLaunch ==
    /\ pc = "loop"
    /\ history_state = NoSelection
    /\ input.value # <<>>
    /\ \E os \in LaunchOutcomes :
          LET r == try_parse_and_launch(input.value, designer, os)
          IN  IF r.ok
              THEN \E io \in
                       DumpOutcomes(history_after_use(history, input.value)) :
                     LET a == add_to_history(history, input.value, file, io)
                     IN  /\ history' = a.history
                         /\ file' = a.file
                         /\ dump_io' = io
                         /\ spawned' = r.argv
                         /\ launched_text' = input.value
                         /\ outcome' = IF a.res = "Ok" THEN "launched"
                                       ELSE "persist_failed"
                         /\ pc' = "exited"
                         /\ pending > 0 /\ pending' = pending - 1
                         /\ last_event' = EventOf("Enter", FALSE, FALSE)
                         /\ UNCHANGED <<designer, input, error, error_text,
                                        history_state>>
              ELSE /\ error' = TRUE
                   /\ error_text' = r.error_text
                   /\ UNCHANGED <<history, designer>>
                   /\ AfterKey(Key("Enter", "", FALSE), input, history_state)
                   /\ UNCHANGED <<file, spawned, launched_text, dump_io>>
    /\ UNCHANGED list_area_empty
    /\ UNCHANGED <<classifyVars, storeVars>>

\* Enter with no highlight and an empty edit buffer.
KeyEnterEmpty ==
    /\ pc = "loop"
    /\ history_state = NoSelection
    /\ input.value = <<>>
    /\ UNCHANGED <<history, designer, error, error_text>>
    /\ AfterKey(Key("Enter", "", FALSE), input, history_state)
    /\ UNCHANGED <<file, list_area_empty, spawned, launched_text, dump_io>>
    /\ UNCHANGED <<classifyVars, storeVars>>

\* Up: select_previous.
KeyUp ==
    /\ pc = "loop"
    /\ UNCHANGED <<history, designer, error, error_text>>
    /\ AfterKey(Key("Up", "", FALSE), input, select_previous(history_state))
    /\ UNCHANGED <<file, list_area_empty, spawned, launched_text, dump_io>>
    /\ UNCHANGED <<classifyVars, storeVars>>

\* Down: select_next.
KeyDown ==
    /\ pc = "loop"
    /\ UNCHANGED <<history, designer, error, error_text>>
    /\ AfterKey(Key("Down", "", FALSE), input, select_next(history_state))
    /\ UNCHANGED <<file, list_area_empty, spawned, launched_text, dump_io>>
    /\ UNCHANGED <<classifyVars, storeVars>>

\* Faulty variant, used to show that the property below discriminates: the highlight is left alone by an edit.
KeyEdit_keeps_highlight ==
    /\ pc = "loop"
    /\ \E key \in {Key("Char", c, FALSE) : c \in TypedChars}
                  \cup {Key("Backspace", "", FALSE), Key("Left", "", FALSE)} :
          /\ AfterKey(key, input, history_state)
    /\ UNCHANGED <<history, designer, error, error_text>>
    /\ UNCHANGED <<file, list_area_empty, spawned, launched_text, dump_io>>
    /\ UNCHANGED <<classifyVars, storeVars>>

\* Faulty variant, used to show that the property below discriminates: an edit clears the error message.
KeyEdit_clears_error ==
    /\ pc = "loop"
    /\ \E key \in {Key("Char", c, FALSE) : c \in TypedChars}
                  \cup {Key("Backspace", "", FALSE), Key("Left", "", FALSE)} :
          /\ AfterKey(key, input, NoSelection)
    /\ error' = FALSE
    /\ error_text' = NoError
    /\ UNCHANGED <<history, designer>>
    /\ UNCHANGED <<file, list_area_empty, spawned, launched_text, dump_io>>
    /\ UNCHANGED <<classifyVars, storeVars>>

\* Any other key (here: a typed character, Backspace, Left): the highlight
\* is cleared, and the edit buffer handles the key.
KeyEdit ==
    /\ pc = "loop"
    /\ \E key \in {Key("Char", c, FALSE) : c \in TypedChars}
                  \cup {Key("Backspace", "", FALSE), Key("Left", "", FALSE)} :
          /\ AfterKey(key, input, NoSelection)
    /\ UNCHANGED <<history, designer, error, error_text>>
    /\ UNCHANGED <<file, list_area_empty, spawned, launched_text, dump_io>>
    /\ UNCHANGED <<classifyVars, storeVars>>

\* An event that is no key press (here: the terminal is resized, and the
\* history panel gets or loses its rows): the frame is drawn.
Resize ==
    /\ pc = "loop"
    /\ list_area_empty' = ~list_area_empty
    /\ pending > 0 /\ pending' = pending - 1
    /\ last_event' = EventOf("Resize", FALSE, history_state # NoSelection)
    /\ \E d \in DrawOutcomes :
          LET f == draw(history_state, history, list_area_empty', d)
          IN  /\ history_state' = f.history_state
              /\ pc' = IF f.ok THEN "loop" ELSE "exited"
              /\ outcome' = IF f.ok THEN "running" ELSE "draw_failed"
    /\ UNCHANGED <<designer, input, error, error_text, history>>
    /\ UNCHANGED <<file, spawned, launched_text, dump_io>>
    /\ UNCHANGED <<classifyVars, storeVars>>

\* event::read() fails: run returns the error, no event is handled.
ReadFails ==
    /\ pc = "loop"
    /\ pc' = "exited"
    /\ outcome' = "read_failed"
    /\ last_event' = EventOf("Err", FALSE, history_state # NoSelection)
    /\ UNCHANGED <<appVars, file, list_area_empty, pending, spawned,
                   launched_text, dump_io>>
    /\ UNCHANGED <<classifyVars, storeVars>>

Next ==
    \/ MainWithPath \/ MainInteractive
    \/ KeyEsc \/ KeyCtrlD
    \/ KeyEnterRecall \/ KeyEnterOutOfRange \/ KeyEnterLaunch \/ KeyEnterEmpty
    \/ KeyUp \/ KeyDown \/ KeyEdit
    \/ Resize \/ ReadFails

Spec == Init /\ [][Next]_vars

(***************************************************************************)
(* SpecStore: the history store as pure functions.  A duplicate-free       *)
(* history and an entry are chosen; the entry is used once or twice, and   *)
(* the file written by the last use is loaded into an empty history.       *)
(***************************************************************************)
StoreEntries ==
    { <<"a", ";", "b">>,
      <<"a", ";", "b", "c">>,
      <<"e", "\r", ";", "f">>,
      <<"g", ";", "h", "\r">>,
      <<"i", ";", "\n", "j">> }

NoDuplicates(h) == \A i, j \in 1..Len(h) : h[i] = h[j] => i = j

StoreHistories ==
    {h \in UNION {[1..n -> StoreEntries] : n \in 0..MaxLen} : NoDuplicates(h)}

InitStore ==
    /\ ClassifyIdle /\ SessionIdle
    /\ st_pc = "new"
    /\ st_h0 \in StoreHistories
    /\ st_e \in StoreEntries
    /\ st_hist = st_h0
    /\ st_once = <<>>
    /\ st_file \in {NoFile, FileOf(write_lines(st_h0, Len(st_h0)))}
    /\ st_io = NoOutcome
    /\ st_res = "Ok"
    /\ st_rd = NoRead
    /\ st_loaded = <<>>

\* add_to_history(st_e) on the in-memory history, first or second time.
StoreUse ==
    /\ st_pc \in {"new", "once"}
    /\ \E io \in DumpOutcomes(history_after_use(st_hist, st_e)) :
          LET r == add_to_history(st_hist, st_e, st_file, io)
          IN  /\ st_hist' = r.history
              /\ st_file' = r.file
              /\ st_res' = r.res
              /\ st_io' = io
              /\ st_once' = IF st_pc = "new" THEN r.history ELSE st_once
    /\ st_pc' = IF st_pc = "new" THEN "once" ELSE "twice"
    /\ UNCHANGED <<st_h0, st_e, st_rd, st_loaded, classifyVars, sessionVars>>

\* load_history into a fresh, empty history.
StoreLoad ==
    /\ st_pc = "once"
    /\ \E rd \in LoadOutcomes(st_file) :
          /\ st_loaded' = load_history(<<>>, st_file, rd)
          /\ st_rd' = rd
    /\ st_pc' = "loaded"
    /\ UNCHANGED <<st_h0, st_e, st_hist, st_once, st_file, st_io, st_res,
                   classifyVars, sessionVars>>

NextStore == StoreUse \/ StoreLoad

SpecStore == InitStore /\ [][NextStore]_vars

(***************************************************************************)
(* SpecClassify: parse_base_path as a pure function.  The descriptor text  *)
(* is assembled from fragments of the documented syntaxes, then parsed.    *)
(***************************************************************************)
Tokens ==
    { <<"w", "s", "=">>,
      <<"W", "S", "=">>,
      <<"F", "i", "l", "e", "=">>,
      <<"S", "r", "v", "r", "=", Quote, "H", Quote, ";">>,
      <<"R", "e", "f", "=", Quote, "r", Quote, ";">>,
      <<Quote, "A", "b", Quote>>,
      <<Quote>>,
      <<";">>,
      <<"a">>,
      <<" ">>,
      <<"\n">> }

NotParsed == Err("not parsed", <<>>)

InitClassify ==
    /\ StoreIdle /\ SessionIdle
    /\ raw = <<>>
    /\ ntok = 0
    /\ parsed = NotParsed

\* One more fragment of text is supplied.
AppendToken ==
    /\ parsed = NotParsed
    /\ ntok < MaxTokens
    /\ \E t \in Tokens : raw' = raw \o t
    /\ ntok' = ntok + 1
    /\ UNCHANGED <<parsed, storeVars, sessionVars>>

\* The text is classified.
Classify ==
    /\ parsed = NotParsed
    /\ parsed' = parse_base_path(raw)
    /\ UNCHANGED <<raw, ntok, storeVars, sessionVars>>

\* The parsed descriptor is handed to launch_base, as try_parse_and_launch
\* does, in either launch mode.
Dispatch ==
    /\ parsed # NotParsed /\ parsed.kind # "Err"
    /\ outcome = "running"
    /\ \E dsg \in BOOLEAN, os \in LaunchOutcomes :
          LET l == launch_base(parsed, dsg, os)
          IN  /\ designer' = dsg
              /\ spawned' = l.argv
              /\ outcome' = IF l.ok THEN "cli_ok" ELSE "cli_err"
    /\ UNCHANGED <<pc, input, error, error_text, history, history_state>>
    /\ UNCHANGED <<file, list_area_empty, pending, last_event, launched_text,
                   dump_io>>
    /\ UNCHANGED <<classifyVars, storeVars>>

NextClassify == AppendToken \/ Classify \/ Dispatch

SpecClassify == InitClassify /\ [][NextClassify]_vars

(***************************************************************************)
(* Claims about the history store, checked under SpecStore.                *)
(***************************************************************************)
\* The index of st_e in the history chosen at the start (it has no
\* duplicates, so there is one index at most).
UsedIndex == position(st_h0, st_e)

\* C1 (as stated): record_use is idempotent: for every history and every
\* entry, present or not, using the entry twice in a row leaves the same
\* sequence as using it once.
C1_IdempotentAlways == st_pc = "twice" => st_hist = st_once

\* C1 (amended): using an entry twice leaves the same sequence as using it
\* once when the entry was already in the history or the history was empty;
\* a new entry used on a non-empty history is appended by the first use and
\* moved to index 0 by the second, so the two sequences differ.
C1_IdempotentWhenPresent ==
    st_pc = "twice" =>
        IF InSeq(st_e, st_h0) \/ st_h0 = <<>>
        THEN st_hist = st_once
        ELSE /\ st_once = Append(st_h0, st_e)
             /\ st_hist = <<st_e>> \o st_h0
             /\ st_hist # st_once

C1_Witness ==
    /\ st_pc = "twice" /\ InSeq(st_e, st_h0) /\ UsedIndex > 1
    /\ st_hist = st_once /\ st_once # st_h0

\* C2: using an entry that is in the history at index i removes that one
\* occurrence from index i and puts it at index 0: the length is unchanged,
\* the entries before i move one place down in their order, the entries
\* after i keep their places; with i the first index nothing changes.
C2_MoveToFront ==
    (st_pc = "once" /\ InSeq(st_e, st_h0)) =>
        \A i \in 1..Len(st_h0) :
            st_h0[i] = st_e =>
                /\ Len(st_hist) = Len(st_h0)
                /\ st_hist[1] = st_e
                /\ \A j \in 1..(i - 1) : st_hist[j + 1] = st_h0[j]
                /\ \A j \in (i + 1)..Len(st_h0) : st_hist[j] = st_h0[j]
                /\ (i = 1 => st_hist = st_h0)

C2_Witness ==
    /\ st_pc = "once" /\ InSeq(st_e, st_h0)
    /\ UsedIndex = 2 /\ Len(st_h0) = 3
    /\ st_hist = <<st_h0[2], st_h0[1], st_h0[3]>>

\* C3: using an entry that is not in a history of N entries gives N+1
\* entries: the N old ones in their order, then the new one last.
C3_AppendNew ==
    (st_pc = "once" /\ ~InSeq(st_e, st_h0)) =>
        /\ Len(st_hist) = Len(st_h0) + 1
        /\ SubSeq(st_hist, 1, Len(st_h0)) = st_h0
        /\ st_hist[Len(st_h0) + 1] = st_e

C3_Witness ==
    /\ st_pc = "once" /\ ~InSeq(st_e, st_h0) /\ Len(st_h0) = 2
    /\ st_hist = <<st_h0[1], st_h0[2], st_e>>

\* No entry of the in-memory history holds a line feed.
NewlineFree == \A i \in 1..Len(st_hist) : ~InSeq("\n", st_hist[i])

\* No entry of the in-memory history ends with a carriage return.
NoTrailingCR ==
    \A i \in 1..Len(st_hist) :
        st_hist[i] = <<>> \/ st_hist[i][Len(st_hist[i])] # "\r"

\* The use was persisted and read back without a file system failure.
RoundTripRan ==
    /\ st_pc = "loaded"
    /\ DumpSucceeds(st_io, st_hist)
    /\ LoadSucceeds(st_rd, st_file)

\* C5 (as stated): for newline-free entries, record_use, persist, then load
\* into an empty history gives exactly the sequence that was in memory.
C5_RoundTripNewlineFree ==
    (RoundTripRan /\ NewlineFree) => st_loaded = st_hist

\* C5 (amended): the round trip gives exactly the in-memory sequence when
\* no entry holds a line feed and no entry ends with a carriage return
\* (the reader drops a carriage return that precedes the line feed).
C5_RoundTripNoCR ==
    (RoundTripRan /\ NewlineFree /\ NoTrailingCR) => st_loaded = st_hist

C5_Witness ==
    /\ RoundTripRan /\ NewlineFree /\ NoTrailingCR
    /\ Len(st_hist) = 3 /\ st_hist # st_h0 /\ st_loaded = st_hist
    /\ st_file.data # <<>>

\* C7: persist reports every write failure: when the file cannot be created
\* or a line cannot be written, add_to_history returns an error.
C7_WriteFailureSurfaced ==
    (st_pc \in {"once", "twice"} /\ ~DumpSucceeds(st_io, st_hist))
        => st_res = "Err"

\* C4: the in-memory history holds no string twice: not after a successful
\* use, and not after the next session has loaded it from the file that
\* use persisted.
C4_HistoryDuplicateFree ==
    /\ NoDuplicates(st_hist)
    /\ st_pc = "loaded" => NoDuplicates(st_loaded)

(***************************************************************************)
(* Claims about the program, checked under Spec.                           *)
(***************************************************************************)
\* The history file holds exactly the in-memory history, a line an entry.
FileHoldsHistory == file = FileOf(write_lines(history, Len(history)))

\* C6 (as stated): every successful launch, by Confirm in the session and
\* by the positional argument alike, is followed before the program exits
\* by record_use of the launched text and a persist that overwrites the
\* file with the whole list.
C6_EveryLaunchRecorded ==
    (pc = "exited" /\ spawned # <<>>) =>
        (InSeq(launched_text, history) /\ FileHoldsHistory)

\* C6 (amended): a successful launch by Confirm in the session is followed
\* in the same step, before the session exits, by record_use of the edit
\* buffer's text and by persist, which overwrites the file with the whole
\* list after record_use when the file can be created and every line
\* written (a file that cannot be created is left as it was); a launch by
\* the positional argument neither loads, records nor persists the history.
C6_ConfirmLaunchRecorded ==
    [][ (spawned = <<>> /\ spawned' # <<>>) =>
          IF pc = "loop"
          THEN /\ pc' = "exited"
               /\ launched_text' = input.value
               /\ InSeq(input.value, history')
               /\ IF InSeq(input.value, history)
                  THEN history'[1] = input.value /\ Len(history') = Len(history)
                  ELSE history' = Append(history, input.value)
               /\ DumpSucceeds(dump_io', history') =>
                     /\ file' = FileOf(write_lines(history', Len(history')))
                     /\ lines(file'.data) = history'
                     /\ outcome' = "launched"
               /\ ~dump_io'.create_ok => file' = file
          ELSE /\ pc = "start" /\ pc' = "exited" /\ outcome' = "cli_ok"
               /\ history' = <<>> /\ file' = file
      ]_vars

C6_Witness ==
    /\ pc = "exited" /\ outcome = "launched" /\ spawned # <<>>
    /\ DumpSucceeds(dump_io, history)
    /\ Len(history) = 2 /\ history[1] = launched_text
    /\ FileHoldsHistory

(***************************************************************************)
(* Claims about the classifier, checked under SpecClassify.                *)
(***************************************************************************)
WsMarker == <<"w", "s", "=">>

\* The text has been classified and the result not yet dispatched (the
\* dispatch changes neither the text nor the result).
Classified == parsed # NotParsed /\ outcome = "running"

\* The trimmed text, and its lower-cased copy.
Trimmed == trim(raw)

Lowered == to_lowercase(trim(raw))

\* The pairs <<i, j>> such that raw holds ws="X" with ws= at i and the
\* closing quote at j, X not empty.
WsOccurrences ==
    {m \in (1..Len(raw)) \X (1..Len(raw)) :
        /\ m[1] + 3 <= Len(raw)
        /\ SubSeq(raw, m[1], m[1] + 3) = WsMarker \o <<Quote>>
        /\ m[2] >= m[1] + 5
        /\ raw[m[2]] = Quote}

WsText(m) == SubSeq(raw, m[1] + 4, m[2] - 1)

\* C8 (as stated): whenever the text holds ws="X", X any non-empty text and
\* anything around it, the result is Web{url: X}, X in its own casing; and
\* a text without exact-case ws= is never classified as Web.
C8_WebAnyText ==
    Classified =>
        /\ \A m \in WsOccurrences : parsed = Web(WsText(m))
        /\ ~contains(raw, WsMarker) => parsed.kind # "Web"

\* C8 (amended): whenever the text holds ws="X", X non-empty and without a
\* line feed, and the text holds no double quote but the two around X, the
\* result is Web{url: X}, X in its own casing; and a text without
\* exact-case ws= is never classified as Web.
C8_WebSingleQuotedText ==
    Classified =>
        /\ \A m \in WsOccurrences :
              (/\ Cardinality(Positions(raw, Quote)) = 2
               /\ ~InSeq("\n", WsText(m)))
                  => parsed = Web(WsText(m))
        /\ ~contains(raw, WsMarker) => parsed.kind # "Web"

C8_Witness ==
    /\ Classified /\ parsed = Web(<<"A", "b">>)
    /\ \E m \in WsOccurrences : m[1] > 1 /\ m[2] < Len(raw)
    /\ Cardinality(Positions(raw, Quote)) = 2

\* The text reaches the Simple form: it holds a `;` and none of the
\* markers ws= (exact case), file=, or srvr= together with ref=.
ReachesSimpleForm ==
    /\ contains(Lowered, <<";">>)
    /\ ~contains(Trimmed, WsMarker)
    /\ ~contains(Lowered, <<"f", "i", "l", "e", "=">>)
    /\ ~(/\ contains(Lowered, <<"s", "r", "v", "r", "=">>)
         /\ contains(Lowered, <<"r", "e", "f", "=">>))

LastSemicolon == Max(Positions(Lowered, ";"))

SplitAtLastSemicolon ==
    Server(SubSeq(Lowered, 1, LastSemicolon - 1),
           SubSeq(Lowered, LastSemicolon + 1, Len(Lowered)))

\* C9 (as stated): every text that reaches the Simple form is classified as
\* Server{host, ref_name}, host the trimmed lower-cased text up to its last
\* `;` and ref_name what follows that `;`, with one `;` or several.
C9_SimpleSplitsAtLast ==
    (Classified /\ ReachesSimpleForm) => parsed = SplitAtLastSemicolon

\* C9 (amended): a text that reaches the Simple form, holds no line feed
\* after trimming and has at least one character before and one after its
\* last `;` is classified as Server{host, ref_name}, host the trimmed
\* lower-cased text up to its last `;` and ref_name what follows it.
C9_SimpleSplitsAtInnerLast ==
    (/\ Classified /\ ReachesSimpleForm
     /\ ~InSeq("\n", Lowered)
     /\ 1 < LastSemicolon /\ LastSemicolon < Len(Lowered))
        => parsed = SplitAtLastSemicolon

C9_Witness ==
    /\ Classified /\ ReachesSimpleForm
    /\ ~InSeq("\n", Lowered)
    /\ 1 < LastSemicolon /\ LastSemicolon < Len(Lowered)
    /\ Cardinality(Positions(Lowered, ";")) >= 2
    /\ Lowered # Trimmed /\ Trimmed # raw
    /\ parsed = SplitAtLastSemicolon

\* The text reaches the Server/Ref form.
ReachesServerForm ==
    /\ contains(Lowered, <<"s", "r", "v", "r", "=">>)
    /\ contains(Lowered, <<"r", "e", "f", "=">>)
    /\ ~contains(Trimmed, WsMarker)
    /\ ~contains(Lowered, <<"f", "i", "l", "e", "=">>)

\* The n-th double quote of the trimmed text.
QuoteAt(n) ==
    CHOOSE i \in Positions(Trimmed, Quote) :
        Cardinality({j \in Positions(Trimmed, Quote) : j <= i}) = n

\* The text holds exactly two quoted segments, "H" then "R", neither
\* empty, with at least one character between them.
TwoQuotedSegments ==
    /\ Cardinality(Positions(Trimmed, Quote)) = 4
    /\ QuoteAt(2) >= QuoteAt(1) + 2
    /\ QuoteAt(3) >= QuoteAt(2) + 2
    /\ QuoteAt(4) >= QuoteAt(3) + 2

SegmentsLowered ==
    Server(SubSeq(Lowered, QuoteAt(1) + 1, QuoteAt(2) - 1),
           SubSeq(Lowered, QuoteAt(3) + 1, QuoteAt(4) - 1))

\* C10 (as stated): a text that reaches the Server/Ref form and holds
\* exactly two non-empty quoted segments "H" then "R" with a character
\* between them is classified as Server{host: lower-cased H, ref_name:
\* lower-cased R}.
C10_ServerTwoSegments ==
    (Classified /\ ReachesServerForm /\ TwoQuotedSegments)
        => parsed = SegmentsLowered

\* C10 (amended): the same, for texts with no line feed between the first
\* and the last double quote.
C10_ServerTwoSegmentsOneLine ==
    (/\ Classified /\ ReachesServerForm /\ TwoQuotedSegments
     /\ AllDot(Trimmed, QuoteAt(1), QuoteAt(4)))
        => parsed = SegmentsLowered

C10_Witness ==
    /\ Classified /\ ReachesServerForm /\ TwoQuotedSegments
    /\ AllDot(Trimmed, QuoteAt(1), QuoteAt(4))
    /\ parsed = Server(<<"h">>, <<"r">>)
    /\ Lowered # Trimmed

\* Which form the markers of the raw text select, tested in the order Web
\* (exact case), File, Server/Ref, Simple.
FormAttempted ==
    LET lc == to_lowercase(raw)
    IN  IF contains(raw, WsMarker) THEN "Web"
        ELSE IF contains(lc, <<"f", "i", "l", "e", "=">>) THEN "File"
        ELSE IF /\ contains(lc, <<"s", "r", "v", "r", "=">>)
                /\ contains(lc, <<"r", "e", "f", "=">>)
             THEN "ServerRef"
        ELSE IF contains(raw, <<";">>) THEN "Simple"
        ELSE "None"

\* The text holds a quoted segment: two double quotes with at least one
\* character, and no line feed, between them.
QuotedShape ==
    \E i, j \in Positions(raw, Quote) :
        /\ j > i + 1
        /\ \A n \in (i + 1)..(j - 1) : raw[n] # "\n"

\* The text holds two quoted segments with a character between them, on
\* one line.
TwoQuotedShape ==
    \E i, j, k, l \in Positions(raw, Quote) :
        /\ j > i + 1 /\ k > j + 1 /\ l > k + 1
        /\ \A n \in i..l : raw[n] # "\n"

\* The trimmed text holds a `;` with a character other than a line feed
\* right after it and before it.
SimpleShape ==
    \E k \in Positions(Trimmed, ";") :
        /\ k > 1 /\ Trimmed[k - 1] # "\n"
        /\ k < Len(Trimmed) /\ Trimmed[k + 1] # "\n"

\* C11: the forms are tried in the order Web (exact-case ws=), File,
\* Server/Ref, Simple and the first whose marker is present decides: its
\* result if its shape is there, its own malformed-form error if not, even
\* when a later form would match; the unrecognized-descriptor error, with
\* the raw text as it was given, is returned exactly when no marker is
\* present.
C11_FirstMarkerWins ==
    Classified =>
        LET form == FormAttempted
        IN  /\ CASE form = "Web" ->
                    IF QuotedShape THEN parsed.kind = "Web"
                    ELSE parsed = Err("expected pattern: ws=\"<url>\";", <<>>)
                  [] form = "File" ->
                    IF QuotedShape THEN parsed.kind = "File"
                    ELSE parsed = Err("expected pattern: File=\"<path>\";", <<>>)
                  [] form = "ServerRef" ->
                    IF TwoQuotedShape THEN parsed.kind = "Server"
                    ELSE parsed =
                           Err("expected pattern: Srvr=\"host\";Ref=\"ref\";", <<>>)
                  [] form = "Simple" ->
                    IF SimpleShape THEN parsed.kind = "Server"
                    ELSE parsed = Err("expected pattern: host;ref", <<>>)
                  [] form = "None" ->
                    parsed = Err("Could not parse provided path: ", raw)
            /\ (parsed.err = "Could not parse provided path: ")
                  <=> (form = "None")

C11_Witness ==
    /\ Classified /\ FormAttempted = "Web" /\ ~QuotedShape
    /\ SimpleShape /\ raw # Trimmed
    /\ parsed = Err("expected pattern: ws=\"<url>\";", <<>>)

\* The launch mode token of the dispatch.
ModeToken == IF designer THEN "DESIGNER" ELSE "ENTERPRISE"

\* C12: the starter is given exactly three tokens: the mode (DESIGNER or
\* ENTERPRISE, by the designer flag alone), the flag and the argument, which
\* the descriptor alone decides: /S with host, separator, ref_name for
\* Server, /F with the path for File, /WS with the url for Web.
C12_ThreeTokens ==
    (parsed # NotParsed /\ outcome = "cli_ok") =>
        /\ Len(spawned) = 3
        /\ spawned[1] = ModeToken
        /\ parsed.kind = "Server" =>
              /\ spawned[2] = "/S"
              /\ spawned[3] = parsed.host \o <<"\\">> \o parsed.ref_name
        /\ parsed.kind = "File" =>
              (spawned[2] = "/F" /\ spawned[3] = parsed.path)
        /\ parsed.kind = "Web" =>
              (spawned[2] = "/WS" /\ spawned[3] = parsed.url)

C12_Witness ==
    /\ parsed # NotParsed /\ outcome = "cli_ok" /\ designer
    /\ parsed.kind = "File"
    /\ spawned = <<"DESIGNER", "/F", <<"a", "b">>>>

(***************************************************************************)
(* Claims about the interactive session, checked under Spec.  A step of    *)
(* the loop is told by the event it handled: last_event' is that event.    *)
(* terminal.draw ends every iteration that has not left the loop; when it  *)
(* fails, run returns the terminal's error after the handler has acted.    *)
(***************************************************************************)
\* The step handles a press of the key with this code.
Handles(code) == pc = "loop" /\ last_event'.code = code

\* The step handles a key the edit buffer acts on.
HandlesEdit ==
    /\ pc = "loop"
    /\ \/ last_event'.code = "Char" /\ ~last_event'.ctrl
       \/ last_event'.code \in {"Backspace", "Left"}

\* A history entry is highlighted: the selected index is one of the list.
Highlighted == history_state # NoSelection /\ history_state < Len(history)

\* The handler leaves the session open: the loop goes on, unless the draw
\* that ends the iteration fails with an error of the terminal.
StaysOpen ==
    \/ pc' = "loop" /\ outcome' = "running"
    \/ pc' = "exited" /\ outcome' = "draw_failed"

\* The message a failed Confirm of text leaves: the classifier's error, or
\* one of the launcher's errors.
IsFailureOf(msg, text) ==
    LET p == parse_base_path(text)
    IN  IF p.kind = "Err"
        THEN msg = <<"Parsing error: ", p.err, p.arg>>
        ELSE /\ msg[1] = "Launcher error: "
             /\ msg[2] \in {"Could not locate 1C starter app", "spawn failed"}

\* C13: Enter while a history entry is highlighted copies exactly that entry
\* into the edit buffer and clears the highlight; it does not classify,
\* dispatch, record, persist or exit, so launching the recalled entry takes
\* a second Enter.
C13_RecallOnly ==
    [][ (Handles("Enter") /\ Highlighted) =>
          /\ input' = InputFrom(history[history_state + 1])
          /\ history_state' = NoSelection
          /\ StaysOpen
          /\ UNCHANGED <<history, file, spawned, launched_text, dump_io>>
          /\ UNCHANGED <<error, error_text, designer>>
      ]_vars

C13_Witness ==
    /\ pc = "loop" /\ last_event = EventOf("Enter", FALSE, TRUE)
    /\ Len(history) = 2 /\ input = InputFrom(history[2])
    /\ input.value # <<>> /\ ~error
    /\ history_state = NoSelection /\ spawned = <<>> /\ file.exists

\* C14: when Enter with no highlight and a non-empty edit buffer fails in
\* the classifier or in the launcher, the error message is set to the
\* failure's description and the session stays open with no highlight; the
\* edit buffer, the history and the history file are unchanged.
C14_FailedConfirmStays ==
    [][ (/\ Handles("Enter") /\ history_state = NoSelection
         /\ input.value # <<>> /\ spawned' = <<>>) =>
          /\ StaysOpen
          /\ error' = TRUE
          /\ IsFailureOf(error_text', input.value)
          /\ history_state' = NoSelection
          /\ UNCHANGED <<input, history, file, dump_io, launched_text>>
      ]_vars

C14_Witness ==
    /\ pc = "loop" /\ last_event = EventOf("Enter", FALSE, FALSE)
    /\ error /\ error_text[1] = "Launcher error: "
    /\ input.value = <<"A", ";", "A">> /\ input.cursor = 1
    /\ Len(history) = 2 /\ file.exists /\ spawned = <<>>

\* Index i, or the last index of the history if i is past it.
Clamped(i) == IF i >= Len(history) THEN Len(history) - 1 ELSE i

\* C15 (as stated): with a non-empty history and no highlight, Up
\* highlights the first entry; from a highlighted entry Up and Down move
\* the highlight by one, Up staying at index 0 and Down at the last index.
C15_UpSelectsFirst ==
    [][ (pc = "loop" /\ history # <<>> /\ pc' = "loop") =>
          /\ (Handles("Up") /\ history_state = NoSelection)
                => history_state' = 0
          /\ (Handles("Up") /\ history_state # NoSelection)
                => history_state' = Max({history_state - 1, 0})
          /\ (Handles("Down") /\ history_state # NoSelection)
                => history_state' = Min({history_state + 1, Len(history) - 1})
      ]_vars

\* C15 (amended): with a non-empty history and no highlight, Up highlights
\* the last entry and Down the first; from a highlighted entry Up and Down
\* move the highlight by one, Up staying at index 0 and Down at the last
\* index - while the history panel has a row to draw.  In a panel without
\* room for a row the selected index is kept as asked for: usize::MAX after
\* Up with no highlight, and one more after each Down, past the last index.
\* The highlight spoken of is that of the frame drawn after the key.
C15_UpSelectsLast ==
    [][ (pc = "loop" /\ history # <<>> /\ pc' = "loop") =>
          /\ (Handles("Up") /\ history_state = NoSelection) =>
                history_state' = IF list_area_empty THEN USizeMax
                                 ELSE Len(history) - 1
          /\ (Handles("Down") /\ history_state = NoSelection) =>
                history_state' = 0
          /\ (Handles("Up") /\ history_state # NoSelection) =>
                history_state' =
                    IF list_area_empty THEN Max({history_state - 1, 0})
                    ELSE Clamped(Max({history_state - 1, 0}))
          /\ (Handles("Down") /\ history_state # NoSelection) =>
                history_state' =
                    IF list_area_empty
                    THEN IF history_state = USizeMax THEN USizeMax
                         ELSE history_state + 1
                    ELSE Min({history_state + 1, Len(history) - 1})
          /\ ~list_area_empty =>
                (history_state = NoSelection \/ history_state < Len(history))
      ]_vars

C15_Witness ==
    /\ pc = "loop" /\ ~list_area_empty
    /\ last_event = EventOf("Up", FALSE, FALSE)
    /\ Len(history) = 2 /\ history_state = 1

\* C16: Esc is handled in every state of the session in which an event
\* arrives - with or without a highlight, an error, text in the edit
\* buffer - and exits it with no side effect: nothing is classified or
\* launched, the history and the history file are unchanged.
C16_CancelNoSideEffects ==
    /\ []((pc = "loop" /\ pending > 0) => ENABLED KeyEsc)
    /\ [][ Handles("Esc") =>
              /\ pc' = "exited" /\ outcome' = "cancelled"
              /\ UNCHANGED <<history, file, spawned, launched_text, dump_io>>
              /\ UNCHANGED <<input, error, error_text, designer,
                             history_state>>
          ]_vars

C16_Witness ==
    /\ pc = "exited" /\ outcome = "cancelled"
    /\ last_event = EventOf("Esc", FALSE, TRUE) /\ history_state = 1
    /\ error /\ input.value # <<>> /\ Len(history) = 2
    /\ spawned = <<>> /\ FileHoldsHistory

\* C17: Ctrl+D flips the designer flag and changes nothing else: the edit
\* buffer's text and cursor, the highlight, the error message and the
\* history are as before.
C17_ToggleOnly ==
    [][ (Handles("Char") /\ last_event'.ctrl) =>
          /\ designer' = ~designer
          /\ StaysOpen
          /\ UNCHANGED <<input, history_state, error, error_text, history>>
          /\ UNCHANGED <<file, spawned, launched_text, dump_io>>
      ]_vars

C17_Witness ==
    /\ pc = "loop" /\ designer
    /\ last_event = EventOf("Char", TRUE, TRUE) /\ history_state = 1
    /\ input.value = <<"A", ";">> /\ input.cursor = 1
    /\ error /\ Len(history) = 2

\* C18: whenever Enter is handled with a highlight, the highlighted index
\* is an index of the history, so no sequence of events makes the session
\* abort on an out-of-range access.
C18_HighlightInRange ==
    [][ (Handles("Enter") /\ history_state # NoSelection) =>
          /\ history_state < Len(history)
          /\ outcome' # "panicked"
      ]_vars

\* C19: a key the edit buffer acts on clears the highlight and applies its
\* edit to the text that was in the buffer: after it there is no
\* highlight, and the buffer holds the edited old text, not the entry that
\* was highlighted.
C19_EditClearsHighlight ==
    [][ HandlesEdit =>
          /\ history_state' = NoSelection
          /\ StaysOpen
          /\ CASE last_event'.code = "Char" ->
                     \E c \in TypedChars : input' = InsertChar(input, c)
                [] last_event'.code = "Backspace" ->
                     input' = DeletePrevChar(input)
                [] last_event'.code = "Left" ->
                     input' = GoToPrevChar(input)
          /\ UNCHANGED <<history, file, designer, error, error_text>>
      ]_vars

C19_Witness ==
    /\ pc = "loop" /\ last_event = EventOf("Char", FALSE, TRUE)
    /\ Len(history) = 2 /\ history_state = NoSelection
    /\ input.value = <<"A", ";">> /\ ~InSeq(input.value, history)

\* C20: once a failed Enter has set the error message no later event of
\* the session clears it; the message changes only when a later failed
\* Enter replaces it with its own.
C20_ErrorSticks ==
    [][ (pc = "loop" /\ error) =>
          /\ error'
          /\ error_text' # NoError
          /\ error_text' # error_text =>
                /\ Handles("Enter") /\ history_state = NoSelection
                /\ input.value # <<>> /\ spawned' = <<>>
                /\ IsFailureOf(error_text', input.value)
      ]_vars

C20_Witness ==
    /\ pc = "loop" /\ error /\ designer
    /\ error_text[2] = "Could not parse provided path: "
    /\ error_text[3] # input.value
    /\ last_event.code = "Up" /\ history_state = 1
    /\ Len(history) = 2 /\ input = InputFrom(history[1])

====
